---- MODULE Spec2Model ----
(***************************************************************************)
(* Model of plugin-octav: the Octav provider (src/providers/index.ts), the *)
(* GET_PORTFOLIO action (src/actions/index.ts) and the plugin init         *)
(* (src/index.ts).                                                         *)
(*                                                                         *)
(* A message text is a sequence of one-character strings.  A JavaScript    *)
(* `undefined` text is the record field hasText = FALSE.                   *)
(***************************************************************************)
EXTENDS Integers, Sequences, FiniteSets, TLC

(***************************************************************************)
(* Bounds of the model.                                                    *)
(***************************************************************************)
\* number of chunks a text of the text-function specification is made of
MaxChunks == 2
\* number of provider/handler invocations that may be in flight together
MaxInv == 2
\* number of plugin init calls in one behaviour
MaxInits == 2
MaxProtocols == 3     \* entries of assetByProtocols of a formatted portfolio
MaxFormatCalls == 2   \* calls of the formatter on one portfolio

(***************************************************************************)
(* State.                                                                  *)
(***************************************************************************)
VARIABLES
  env,      \* process.env.OCTAV_API_KEY
  inv,      \* the invocations of the provider and of the handler
  plugin,   \* the octavPlugin.init call
  probe     \* a text under test and what the text functions returned for it

vars == <<env, inv, plugin, probe>>

Inv == 1..MaxInv

(***************************************************************************)
(* Characters and texts.                                                   *)
(***************************************************************************)
\* /0x[a-fA-F0-9]{40}/ : the repetition count of the hex class
HexLen == 40

\* the character class [a-fA-F0-9]
HexChars ==
  {"0", "1", "2", "3", "4", "5", "6", "7", "8", "9",
   "a", "b", "c", "d", "e", "f", "A", "B", "C", "D", "E", "F"}

UpperAlpha ==
  <<"A", "B", "C", "D", "E", "F", "G", "H", "I", "J", "K", "L", "M",
    "N", "O", "P", "Q", "R", "S", "T", "U", "V", "W", "X", "Y", "Z">>

LowerAlpha ==
  <<"a", "b", "c", "d", "e", "f", "g", "h", "i", "j", "k", "l", "m",
    "n", "o", "p", "q", "r", "s", "t", "u", "v", "w", "x", "y", "z">>

\* String.prototype.toLowerCase on one character: an ASCII capital maps to
\* its small letter, U+0130 (written "I_dot") maps to the two code points
\* "i" and U+0307 (written "dot_above"), any other character to itself.
LowerChar(c) ==
  IF \E k \in 1..Len(UpperAlpha) : UpperAlpha[k] = c
    THEN <<LowerAlpha[CHOOSE k \in 1..Len(UpperAlpha) : UpperAlpha[k] = c]>>
    ELSE IF c = "I_dot" THEN <<"i", "dot_above">> ELSE <<c>>

RECURSIVE toLowerCase(_)
toLowerCase(s) ==
  IF s = <<>> THEN <<>> ELSE LowerChar(Head(s)) \o toLowerCase(Tail(s))

\* String.prototype.includes
includes(s, kw) ==
  \E i \in 1..(Len(s) + 1) :
    /\ i + Len(kw) - 1 <= Len(s)
    /\ SubSeq(s, i, i + Len(kw) - 1) = kw

RECURSIVE Rep(_, _)
Rep(c, n) == IF n = 0 THEN <<>> ELSE <<c>> \o Rep(c, n - 1)

(***************************************************************************)
(* The regular expression /0x[a-fA-F0-9]{40}/ as String.prototype.match    *)
(* runs it (no g flag): scan the start positions from the left, return the *)
(* first position where the pattern matches, or null.                      *)
(***************************************************************************)
MatchesAt(s, i) ==
  /\ i + 1 + HexLen <= Len(s)
  /\ s[i] = "0"
  /\ s[i + 1] = "x"
  /\ \A j \in 2..(HexLen + 1) : s[i + j] \in HexChars

RECURSIVE ScanFrom(_, _)
ScanFrom(s, i) ==
  IF i > Len(s) THEN 0
  ELSE IF MatchesAt(s, i) THEN i
  ELSE ScanFrom(s, i + 1)

\* a match that takes the last address of the text instead of the first
RegexMatchLast(s) ==
  LET ps == {i \in 1..Len(s) : MatchesAt(s, i)}
      i == IF ps = {} THEN 0 ELSE CHOOSE p \in ps : \A q \in ps : q <= p
  IN IF i = 0 THEN [found |-> FALSE, m |-> <<>>]
     ELSE [found |-> TRUE, m |-> SubSeq(s, i, i + 1 + HexLen)]

\* the result of s.match(/0x[a-fA-F0-9]{40}/): found = FALSE is null,
\* otherwise m is element [0] of the match array
RegexMatch(s) ==
  LET i == ScanFrom(s, 1)
  IN IF i = 0 THEN [found |-> FALSE, m |-> <<>>]
     ELSE [found |-> TRUE, m |-> SubSeq(s, i, i + 1 + HexLen)]

(***************************************************************************)
(* Values.                                                                 *)
(***************************************************************************)
\* a process.env entry: undefined, or a string (possibly empty)
EnvUndefined == [defined |-> FALSE, value |-> ""]
EnvString(v) == [defined |-> TRUE, value |-> v]

\* JavaScript truthiness of a process.env entry
Truthy(e) == e.defined /\ e.value # ""

\* message.content: text may be undefined
NoTextContent == [hasText |-> FALSE, text |-> <<>>]
TextContent(t) == [hasText |-> TRUE, text |-> t]

\* a thrown value: an Error instance with its message, or any other value
\* with its String() form
NoError == [isError |-> FALSE, message |-> <<>>]
Error(m) == [isError |-> TRUE, message |-> m]
NonError(m) == [isError |-> FALSE, message |-> m]

ErrNoKey == <<"Octav API not found">>
ErrNoAddress == <<"Valid ethereum address not found in message">>
ErrFallback == <<"Failed to fetch portfolio balances from Octav">>
ErrTextUndefined == <<"TypeError: undefined is not an object (content.text.match)">>
ErrJson == <<"SyntaxError: JSON Parse error">>
ErrNetwork == <<"TypeError: fetch failed">>
ErrCallback == <<"Callback error">>

OCTAV_API_URL == "https://backend-dev-api.octav.fi"

\* URLSearchParams.prototype.toString for a list of (name, value) pairs whose
\* values need no percent-encoding (an address is alphanumeric)
RECURSIVE ParamsToString(_)
ParamsToString(params) ==
  IF params = <<>> THEN <<>>
  ELSE <<params[1][1], "=">> \o params[1][2]
       \o (IF Len(params) > 1 THEN <<"&">> ELSE <<>>)
       \o ParamsToString(Tail(params))

NoRequest == [method |-> "", url |-> <<>>, Authorization |-> <<>>]

\* a fetch call that sends the bare key as the Authorization header
FetchRequestBareKey(address, key) ==
  [method |-> "GET",
   url |-> <<OCTAV_API_URL, "/v1/portfolio?">>
           \o ParamsToString(<<<<"addresses", address>>>>),
   Authorization |-> <<key.value>>]

\* the fetch(url, {method, headers}) call of the provider
FetchRequest(address, key) ==
  [method |-> "GET",
   url |-> <<OCTAV_API_URL, "/v1/portfolio?">>
           \o ParamsToString(<<<<"addresses", address>>>>),
   Authorization |-> <<"Bearer ", key.value>>]

\* the provider's error for a non-success response
FetchFailedMessage(address, statusText) ==
  <<"Failed to fetch portfolio balances for ">> \o address \o <<": ">>
  \o statusText

(***************************************************************************)
(* formatPortfolioBalancesResponse.  A monetary value is a decimal string  *)
(* of digits with an optional "." and at most three fraction digits; the   *)
(* Number of it is held as its count of thousandths, together with the     *)
(* side on which the IEEE-754 double nearest to it lies (TieBias).         *)
(***************************************************************************)
DigitChars == <<"0", "1", "2", "3", "4", "5", "6", "7", "8", "9">>

DigitVal(c) == (CHOOSE k \in 1..10 : DigitChars[k] = c) - 1

RECURSIVE DigitsToNat(_)
DigitsToNat(ds) ==
  IF ds = <<>> THEN 0
  ELSE DigitsToNat(SubSeq(ds, 1, Len(ds) - 1)) * 10 + DigitVal(ds[Len(ds)])

RECURSIVE NatToDigits(_)
NatToDigits(n) ==
  IF n < 10 THEN <<DigitChars[n + 1]>>
  ELSE NatToDigits(n \div 10) \o <<DigitChars[(n % 10) + 1]>>

\* Number(value), in thousandths
NumberOf(value) ==
  LET dots == {i \in 1..Len(value) : value[i] = "."}
      dot == IF dots = {} THEN Len(value) + 1 ELSE CHOOSE i \in dots : TRUE
      whole == SubSeq(value, 1, dot - 1)
      frac == SubSeq(value, dot + 1, Len(value))
      frac3 == frac \o Rep("0", 3 - Len(frac))
  IN DigitsToNat(whole) * 1000 + DigitsToNat(frac3)

\* for a count of thousandths that ends in 5: -1 when the double nearest to
\* it is smaller than it (1.005 is held as 1.00499999999999989...), +1 when
\* it is larger (8.345 is held as 8.3450000000000006...), 0 when it is exact
\* (0.125); the values are those of the money strings of the model
TieBias(n) ==
  CASE n = 1005 -> -1
    [] n = 9995 -> -1
    [] n = 8345 -> 1
    [] OTHER -> 0

\* the two digits after the point and the digits before it
FixedDigits(h) ==
  NatToDigits(h \div 100)
  \o <<".", DigitChars[((h \div 10) % 10) + 1], DigitChars[(h % 10) + 1]>>

\* a toFixed that cuts the third fraction digit off
toFixed2Truncate(n) == FixedDigits(n \div 10)

\* Number.prototype.toFixed(2) of a count of thousandths: the hundredth
\* nearest to the double, the larger one when both are as near
toFixed2(n) ==
  LET up == (n % 10 > 5) \/ (n % 10 = 5 /\ TieBias(n) >= 0)
  IN FixedDigits(IF up THEN (n \div 10) + 1 ELSE n \div 10)

\* Array.prototype.join("\n") of a list of lines
RECURSIVE JoinLines(_)
JoinLines(ls) ==
  IF ls = <<>> THEN <<>>
  ELSE IF Len(ls) = 1 THEN ls[1]
  ELSE ls[1] \o <<"\n">> \o JoinLines(Tail(ls))

\* Array.prototype.sort((a, b) => Number(b.value) - Number(a.value)): a
\* stable sort, descending by value
\* an insertion that puts an entry before the entries of equal value
RECURSIVE InsertDescBeforeEqual(_, _)
InsertDescBeforeEqual(sorted, e) ==
  IF sorted = <<>> THEN <<e>>
  ELSE IF NumberOf(e.value) >= NumberOf(Head(sorted).value)
    THEN <<e>> \o sorted
    ELSE <<Head(sorted)>> \o InsertDescBeforeEqual(Tail(sorted), e)

RECURSIVE InsertDesc(_, _)
InsertDesc(sorted, e) ==
  IF sorted = <<>> THEN <<e>>
  ELSE IF NumberOf(e.value) > NumberOf(Head(sorted).value)
    THEN <<e>> \o sorted
    ELSE <<Head(sorted)>> \o InsertDesc(Tail(sorted), e)

RECURSIVE SortDesc(_)
SortDesc(es) ==
  IF es = <<>> THEN <<>>
  ELSE InsertDesc(SortDesc(SubSeq(es, 1, Len(es) - 1)), es[Len(es)])

\* findIndex((p) => p.name === "Wallet"), 1-based, 0 for -1
WalletIndex(es) ==
  LET is == {i \in 1..Len(es) : es[i].name = "Wallet"}
  IN IF is = {} THEN 0 ELSE CHOOSE i \in is : \A j \in is : i <= j

\* a formatter that moves every Wallet entry to the front
WalletsAllFirst(es) ==
  LET IsWallet(e) == e.name = "Wallet"
      IsOther(e) == e.name # "Wallet"
  IN SelectSeq(es, IsWallet) \o SelectSeq(es, IsOther)

\* a formatter that leaves the Wallet entry where the sort has put it
WalletStays(es) == es

\* splice(walletIndex, 1) followed by unshift(wallet)
WalletFirst(es) ==
  LET w == WalletIndex(es)
  IN IF w = 0 THEN es
     ELSE <<es[w]>> \o SubSeq(es, 1, w - 1) \o SubSeq(es, w + 1, Len(es))

ValueLine(e) == <<e.name, ": $">> \o toFixed2(NumberOf(e.value))

\* Object.entries(undefined) throws a TypeError
FormatThrows(p) == ~p.hasChains \/ ~p.hasProtocols

\* a formatter that sorts and reorders the entries of the portfolio it is
\* given, in place
formatEffectInPlace(p) ==
  [p EXCEPT !.assetByProtocols = WalletFirst(SortDesc(p.assetByProtocols))]

\* the portfolio object after a call of the formatter: Object.entries and
\* map build new arrays, and sort, splice and unshift work on those
formatEffect(p) == p

\* a chain section sorted by value like the protocol section
networthPerChainSorted(chains) ==
  JoinLines([k \in 1..Len(chains) |-> ValueLine(SortDesc(chains)[k])])

\* Object.entries(chains).map(...).join("\n")
networthPerChain(chains) ==
  JoinLines([k \in 1..Len(chains) |-> ValueLine(chains[k])])

\* a section that is left empty when there are no lines
OrPlaceholderNever(str, placeholder) == str

\* str ? str : placeholder
OrPlaceholder(str, placeholder) ==
  IF str # <<>> THEN str ELSE <<placeholder>>

formatPortfolioBalancesResponse(p) ==
  LET totalNetworthFormatted == toFixed2(NumberOf(p.networth))
      networthPerProtocol ==
        WalletFirst(SortDesc(
          [k \in 1..Len(p.assetByProtocols) |->
             [name |-> p.assetByProtocols[k].name,
              value |-> p.assetByProtocols[k].value]]))
      networthProtocolStr ==
        JoinLines([k \in 1..Len(networthPerProtocol) |->
                     ValueLine(networthPerProtocol[k])])
  IN <<"=== Portfolio Balances (in USD) ===", "\n", "\n", "Address: ">>
     \o p.address
     \o <<"\n", "Total Networth: $">> \o totalNetworthFormatted
     \o <<"\n", "    ", "\n", "Networth per Chain:", "\n",
          "-----------------------------", "\n">>
     \o OrPlaceholder(networthPerChain(p.chains),
                      "No data available for chains.")
     \o <<"\n", "    ", "\n", "Networth per Protocol:", "\n",
          "-----------------------------", "\n">>
     \o OrPlaceholder(networthProtocolStr,
                      "No data available for protocols.")
     \o <<"\n", "\n", "=============================">>

(***************************************************************************)
(* octavProvider.get, split at its suspension points.                      *)
(***************************************************************************)
NoPortfolio ==
  [address |-> <<>>, networth |-> <<"0">>, hasChains |-> FALSE,
   chains |-> <<>>, hasProtocols |-> FALSE, assetByProtocols |-> <<>>]

\* a ProviderResult: {data: ...} or {text: ...}; data may be undefined
NoProviderResult ==
  [settled |-> FALSE, hasData |-> FALSE, data |-> NoPortfolio,
   hasText |-> FALSE, text |-> <<>>]

\* a catch block that never looks at the error it caught
providerCatchFallbackOnly(error) ==
  [settled |-> TRUE, hasData |-> FALSE, data |-> NoPortfolio,
   hasText |-> TRUE, text |-> ErrFallback]

\* the catch block of the provider
providerCatch(error) ==
  [settled |-> TRUE, hasData |-> FALSE, data |-> NoPortfolio,
   hasText |-> TRUE,
   text |-> IF error.isError THEN error.message ELSE ErrFallback]

\* a provider that returns the last element of the array
providerReturnLast(data) ==
  [settled |-> TRUE,
   hasData |-> Len(data) > 0,
   data |-> IF Len(data) > 0 THEN data[Len(data)] ELSE NoPortfolio,
   hasText |-> FALSE, text |-> <<>>]

\* return { data: data[0] }
providerReturn(data) ==
  [settled |-> TRUE,
   hasData |-> Len(data) > 0,
   data |-> IF Len(data) > 0 THEN data[1] ELSE NoPortfolio,
   hasText |-> FALSE, text |-> <<>>]

\* content.text.match(/0x[a-fA-F0-9]{40}/) in the provider
providerAddressMatch(text) == RegexMatch(text)

\* a provider that looks for the address before it checks the key
providerSyncAddressFirst(content, key) ==
  IF ~content.hasText
    THEN [threw |-> TRUE, error |-> Error(ErrTextUndefined),
          address |-> <<>>, request |-> NoRequest]
  ELSE LET addressMatch == providerAddressMatch(content.text)
       IN IF ~addressMatch.found
            THEN [threw |-> TRUE, error |-> Error(ErrNoAddress),
                  address |-> <<>>, request |-> NoRequest]
          ELSE IF ~Truthy(key)
            THEN [threw |-> TRUE, error |-> Error(ErrNoKey),
                  address |-> <<>>, request |-> NoRequest]
          ELSE [threw |-> FALSE, error |-> NoError,
                address |-> addressMatch.m,
                request |-> FetchRequest(addressMatch.m, key)]

\* a provider that does not test the match for null and queries the empty
\* address
providerSyncNoAddressCheck(content, key) ==
  IF ~Truthy(key)
    THEN [threw |-> TRUE, error |-> Error(ErrNoKey),
          address |-> <<>>, request |-> NoRequest]
  ELSE IF ~content.hasText
    THEN [threw |-> TRUE, error |-> Error(ErrTextUndefined),
          address |-> <<>>, request |-> NoRequest]
  ELSE LET addressMatch == providerAddressMatch(content.text)
       IN [threw |-> FALSE, error |-> NoError,
           address |-> addressMatch.m,
           request |-> FetchRequest(addressMatch.m, key)]

\* the provider up to its fetch call: it throws, or it issues one request
providerSync(content, key) ==
  IF ~Truthy(key)
    THEN [threw |-> TRUE, error |-> Error(ErrNoKey),
          address |-> <<>>, request |-> NoRequest]
  ELSE IF ~content.hasText
    THEN [threw |-> TRUE, error |-> Error(ErrTextUndefined),
          address |-> <<>>, request |-> NoRequest]
  ELSE LET addressMatch == providerAddressMatch(content.text)
       IN IF ~addressMatch.found
            THEN [threw |-> TRUE, error |-> Error(ErrNoAddress),
                  address |-> <<>>, request |-> NoRequest]
            ELSE [threw |-> FALSE, error |-> NoError,
                  address |-> addressMatch.m,
                  request |-> FetchRequest(addressMatch.m, key)]

\* a provider that does not test responseRaw.ok and reads every response
providerAfterFetchNoOkCheck(address, outcome) ==
  IF outcome.rejected
    THEN [parse |-> FALSE, result |-> providerCatch(outcome.error)]
    ELSE [parse |-> TRUE, result |-> NoProviderResult]

\* the provider once fetch has settled: a rejection is caught, a response
\* that is not ok throws and is caught, an ok response is read with json()
providerAfterFetch(address, outcome) ==
  IF outcome.rejected
    THEN [parse |-> FALSE, result |-> providerCatch(outcome.error)]
  ELSE IF ~outcome.ok
    THEN [parse |-> FALSE,
          result |-> providerCatch(
                       Error(FetchFailedMessage(address, outcome.statusText)))]
  ELSE [parse |-> TRUE, result |-> NoProviderResult]

\* the provider once responseRaw.json() has settled
providerAfterJson(body) ==
  IF ~body.isJson THEN providerCatch(Error(ErrJson))
  ELSE providerReturn(body.array)

(***************************************************************************)
(* getPortfolioBalancesAction: validate and handler.                       *)
(***************************************************************************)
fetchPortfolioBalancesKeyword ==
  << <<"f","e","t","c","h"," ","p","o","r","t","f","o","l","i","o">>,
     <<"g","e","t"," ","p","o","r","t","f","o","l","i","o">>,
     <<"l","i","s","t"," ","p","o","r","t","f","o","l","i","o"," ",
       "b","a","l","a","n","c","e","s">>,
     <<"p","o","r","t","f","o","l","i","o">>,
     <<"d","i","s","p","l","a","y"," ","p","o","r","t","f","o","l","i","o",
       " ","b","a","l","a","n","c","e","s">> >>

\* Array.prototype.some over the keyword list, from the first keyword on
RECURSIVE SomeIncludes(_, _)
SomeIncludes(content, keywords) ==
  IF keywords = <<>> THEN FALSE
  ELSE IF includes(content, Head(keywords)) THEN TRUE
  ELSE SomeIncludes(content, Tail(keywords))

\* a validate that does not lower-case the text
validateCaseSensitive(content) ==
  SomeIncludes(IF content.hasText THEN content.text ELSE <<>>,
               fetchPortfolioBalancesKeyword)

validate(content) ==
  LET lowered == IF content.hasText /\ content.text # <<>>
                   THEN toLowerCase(content.text) ELSE <<>>
  IN SomeIncludes(lowered, fetchPortfolioBalancesKeyword)

\* a handler that reports the last address of the text
handlerAddressLast(content) ==
  IF ~content.hasText THEN <<>>
  ELSE LET addressMatch == RegexMatchLast(content.text)
       IN IF addressMatch.found THEN addressMatch.m ELSE <<>>

\* message.content.text?.match(...)?.[0] ?? ""
handlerAddress(content) ==
  IF ~content.hasText THEN <<>>
  ELSE LET addressMatch == RegexMatch(content.text)
       IN IF addressMatch.found THEN addressMatch.m ELSE <<>>

sucessfullActionMessage == "Sucessfully Fetched portfolio balances on Octav \n"

\* a success text that leaves the report out
SuccessTextNoReport(formattedResponse) ==
  <<"U+2705 ", sucessfullActionMessage>>

SuccessText(formattedResponse) ==
  <<"U+2705 ", sucessfullActionMessage, " \n ">> \o formattedResponse

\* an ActionResult; absent fields have has... = FALSE
NoResult ==
  [settled |-> "pending", success |-> FALSE, hasText |-> FALSE, text |-> <<>>,
   hasError |-> FALSE, error |-> NoError, hasValues |-> FALSE,
   address |-> <<>>, formattedResponse |-> <<>>]

\* return { success: false, error: "No data" }
NoDataResult ==
  [NoResult EXCEPT !.settled = "resolved", !.hasError = TRUE,
                   !.error = NonError(<<"No data">>)]

SuccessResult(address, formattedResponse) ==
  [NoResult EXCEPT !.settled = "resolved", !.success = TRUE,
                   !.hasText = TRUE, !.text = SuccessText(formattedResponse),
                   !.hasValues = TRUE, !.address = address,
                   !.formattedResponse = formattedResponse]

\* the return of the catch block
FailureResult(error) ==
  [NoResult EXCEPT !.settled = "resolved", !.hasText = TRUE,
                   !.text = <<"U+274C ">> \o error.message,
                   !.hasError = TRUE, !.error = Error(error.message)]

\* the handler promise rejects with the value thrown inside the catch block
RejectedResult(error) ==
  [NoResult EXCEPT !.settled = "rejected", !.hasError = TRUE, !.error = error]

\* the argument of the callback in the try block and in the catch block
\* a callback argument whose text is the bare report
SuccessContentReportOnly(address, formattedResponse) ==
  [text |-> formattedResponse, success |-> TRUE,
   address |-> address, formattedResponse |-> formattedResponse,
   error |-> <<>>]

SuccessContent(address, formattedResponse) ==
  [text |-> SuccessText(formattedResponse), success |-> TRUE,
   address |-> address, formattedResponse |-> formattedResponse,
   error |-> <<>>]

FailureContent(errorMessage) ==
  [text |-> errorMessage, success |-> FALSE, address |-> <<>>,
   formattedResponse |-> <<>>, error |-> errorMessage]

(***************************************************************************)
(* octavPlugin.init and configSchema.                                      *)
(***************************************************************************)
\* the OCTAV_API_KEY entry of a config object: absent, a string, or a value
\* that is not a string
ConfigAbsent == [present |-> FALSE, isString |-> TRUE, value |-> ""]
ConfigString(v) == [present |-> TRUE, isString |-> TRUE, value |-> v]
ConfigNumber == [present |-> TRUE, isString |-> FALSE, value |-> "123"]

\* a schema in which the key is required
configSchemaRequired(config) == config.present /\ config.isString

\* configSchema.parseAsync: z.string().optional()
configSchemaValid(config) == ~config.present \/ config.isString

\* an init without the test `if (value)`: the empty string is copied too
initEnvCopiesEmpty(key, config) ==
  IF configSchemaValid(config) /\ config.present
    THEN EnvString(config.value)
    ELSE key

\* an init that keeps a key the environment already has
initEnvKeepExisting(key, config) ==
  IF configSchemaValid(config) /\ config.present /\ config.value # ""
     /\ ~key.defined
    THEN EnvString(config.value)
    ELSE key

\* an init that copies the entries of the config it was given, validated or
\* not
initEnvUnvalidated(key, config) ==
  IF config.present /\ config.value # ""
    THEN EnvString(config.value)
    ELSE key

\* the loop over the validated entries: if (value) process.env[key] = value
initEnv(key, config) ==
  IF configSchemaValid(config) /\ config.present /\ config.value # ""
    THEN EnvString(config.value)
    ELSE key

\* z.string() on a number
ZodExpectedString == "Expected string, received number"

\* the Error init throws for a ZodError
InitErrorMessage(config) ==
  <<"Invalid Octav plugin configuration: ", ZodExpectedString>>

IdlePlugin ==
  [pc |-> "idle", config |-> ConfigAbsent, calls |-> 0, outcome |-> "none",
   error |-> NoError,
   envBefore |-> EnvUndefined]  \* process.env.OCTAV_API_KEY at the call

(***************************************************************************)
(* One invocation of octavProvider.get or of the GET_PORTFOLIO handler:    *)
(* its arguments, its locals and what it has done so far.                  *)
(***************************************************************************)
IdleInvocation ==
  [pc |-> "idle", kind |-> "none", content |-> NoTextContent,
   hasCallback |-> FALSE,
   address |-> <<>>,           \* the handler's local `address`
   provAddress |-> <<>>,       \* the provider's local `address`
   keyChecked |-> EnvUndefined, \* process.env.OCTAV_API_KEY as line 22 read it
   fetchedBefore |-> {},       \* the addresses fetched with data before the call
   pluginAtCall |-> IdlePlugin, \* the plugin init call as it was at the call
   formatCalls |-> 0,          \* the number of formatter calls
   requests |-> <<>>,          \* the fetch calls made, in order
   responses |-> <<>>,         \* the outcomes of those fetch calls
   jsonCalls |-> 0,            \* the number of responseRaw.json() calls
   bodies |-> <<>>,            \* the bodies json() has read
   provResult |-> NoProviderResult,
   cbCalls |-> <<>>,           \* the arguments of the callback calls
   cbThrew |-> <<>>,           \* for each settled callback call: did it throw
   caught |-> NoError,         \* the error the handler's catch block caught
   result |-> NoResult]

ErrFormat == <<"TypeError: Object.entries requires that input parameter not be null or undefined">>

\* the catch block of the handler, up to its callback call
handlerCatch(st, error) ==
  IF st.hasCallback
    THEN [st EXCEPT !.pc = "callbackCatch", !.caught = error,
                    !.cbCalls = Append(@, FailureContent(error.message))]
    ELSE [st EXCEPT !.pc = "resolved", !.caught = error,
                    !.result = FailureResult(error)]

\* a handler that throws when the provider has no data, and so reports it
\* through its catch block
handlerAfterProviderThrowsNoData(st) ==
  IF ~st.provResult.hasData
    THEN handlerCatch(st, Error(<<"No data">>))
  ELSE IF st.hasCallback
    THEN [st EXCEPT !.pc = "callback",
                    !.formatCalls = @ + 1,
                    !.cbCalls = Append(@, SuccessContent(st.address,
                        formatPortfolioBalancesResponse(st.provResult.data)))]
    ELSE [st EXCEPT !.pc = "resolved",
                    !.formatCalls = @ + 1,
                    !.result = SuccessResult(st.address,
                        formatPortfolioBalancesResponse(st.provResult.data))]

\* the try block of the handler from the provider's result on, up to its
\* callback call
handlerAfterProvider(st) ==
  IF ~st.provResult.hasData
    THEN [st EXCEPT !.pc = "resolved", !.result = NoDataResult]
  ELSE IF FormatThrows(st.provResult.data)
    THEN handlerCatch([st EXCEPT !.formatCalls = @ + 1], Error(ErrFormat))
  ELSE LET formattedResponse ==
             formatPortfolioBalancesResponse(st.provResult.data)
       IN IF st.hasCallback
            THEN [st EXCEPT !.pc = "callback",
                            !.formatCalls = @ + 1,
                            !.cbCalls = Append(@, SuccessContent(st.address,
                                                     formattedResponse))]
            ELSE [st EXCEPT !.pc = "resolved",
                            !.formatCalls = @ + 1,
                            !.result = SuccessResult(st.address,
                                                     formattedResponse)]

\* the provider's promise resolves; a handler awaiting it goes on
settleProvider(st, pres) ==
  LET st1 == [st EXCEPT !.provResult = pres]
  IN IF st.kind = "provider" THEN [st1 EXCEPT !.pc = "resolved"]
     ELSE handlerAfterProvider(st1)

\* a provider that answers from the data an earlier invocation got for the
\* same address, without a request
startProviderCached(st, key) ==
  LET sync == providerSync(st.content, key)
      st1 == [st EXCEPT !.keyChecked = key]
      hits == {j \in Inv : /\ inv[j].provResult.hasData
                            /\ inv[j].provAddress = sync.address}
  IN IF sync.threw THEN settleProvider(st1, providerCatch(sync.error))
     ELSE IF hits # {}
       THEN settleProvider([st1 EXCEPT !.provAddress = sync.address],
                           inv[CHOOSE j \in hits : TRUE].provResult)
     ELSE [st1 EXCEPT !.pc = "fetch", !.provAddress = sync.address,
                      !.requests = Append(@, sync.request)]

\* the provider from its entry to its first suspension
startProvider(st, key) ==
  LET sync == providerSync(st.content, key)
      st1 == [st EXCEPT !.keyChecked = key]
  IN IF sync.threw THEN settleProvider(st1, providerCatch(sync.error))
     ELSE [st1 EXCEPT !.pc = "fetch", !.provAddress = sync.address,
                      !.requests = Append(@, sync.request)]

\* a provider that repeats the request once when the first one has failed
afterFetchRetry(st, outcome) ==
  LET step == providerAfterFetch(st.provAddress, outcome)
      st1 == [st EXCEPT !.responses = Append(@, outcome)]
  IN IF step.parse
       THEN [st1 EXCEPT !.pc = "json", !.jsonCalls = @ + 1]
     ELSE IF Len(st.requests) < 2
       THEN [st1 EXCEPT !.requests = Append(@, st.requests[1])]
     ELSE settleProvider(st1, step.result)

\* a provider whose `address` is one variable of the module, shared by all
\* invocations: the error names the address of the latest call
afterFetchSharedAddress(st, outcome) ==
  LET started == {j \in Inv : inv[j].kind # "none"}
      latest == CHOOSE j \in started : \A k \in started : k <= j
      step == providerAfterFetch(inv[latest].provAddress, outcome)
      st1 == [st EXCEPT !.responses = Append(@, outcome)]
  IN IF step.parse
       THEN [st1 EXCEPT !.pc = "json", !.jsonCalls = @ + 1]
       ELSE settleProvider(st1, step.result)

\* fetch settles with `outcome`
afterFetch(st, outcome) ==
  LET step == providerAfterFetch(st.provAddress, outcome)
      st1 == [st EXCEPT !.responses = Append(@, outcome)]
  IN IF step.parse
       THEN [st1 EXCEPT !.pc = "json", !.jsonCalls = @ + 1]
       ELSE settleProvider(st1, step.result)

\* responseRaw.json() settles having read `body`
afterJson(st, body) ==
  settleProvider([st EXCEPT !.bodies = Append(@, body)],
                 providerAfterJson(body))

\* the awaited callback call of the try block settles
afterCallback(st, threw, error) ==
  LET st1 == [st EXCEPT !.cbThrew = Append(@, threw)]
      last == st.cbCalls[Len(st.cbCalls)]
  IN IF threw THEN handlerCatch(st1, error)
     ELSE [st1 EXCEPT !.pc = "resolved",
                      !.result = SuccessResult(last.address,
                                               last.formattedResponse)]

\* a catch block that calls the callback once more when its call has thrown
afterCallbackCatchRetry(st, threw, error) ==
  LET st1 == [st EXCEPT !.cbThrew = Append(@, threw)]
  IN IF threw /\ Len(st.cbCalls) < 3
       THEN [st1 EXCEPT !.cbCalls = Append(@, FailureContent(error.message))]
     ELSE IF threw
       THEN [st1 EXCEPT !.pc = "rejected", !.result = RejectedResult(error)]
       ELSE [st1 EXCEPT !.pc = "resolved", !.result = FailureResult(st.caught)]

\* the awaited callback call of the catch block settles
afterCallbackCatch(st, threw, error) ==
  LET st1 == [st EXCEPT !.cbThrew = Append(@, threw)]
  IN IF threw
       THEN [st1 EXCEPT !.pc = "rejected", !.result = RejectedResult(error)]
       ELSE [st1 EXCEPT !.pc = "resolved", !.result = FailureResult(st.caught)]

(***************************************************************************)
(* The inputs of the model.                                                *)
(***************************************************************************)
AddrA == <<"0", "x">> \o Rep("A", HexLen \div 2) \o Rep("b", HexLen \div 2)
AddrB == <<"0", "x">> \o Rep("1", HexLen)

\* the message contents of the invocations
Contents ==
  {NoTextContent,
   TextContent(<<"p", "o", "r", "t", "f", "o", "l", "i", "o">>),
   TextContent(<<"o", "f", " ">> \o AddrA \o <<"?">>),
   TextContent(AddrB \o <<",", " ">> \o AddrA)}

\* the values process.env.OCTAV_API_KEY may have when the plugin is loaded
EnvValues == {EnvUndefined, EnvString(""), EnvString("key1")}

Configs == {ConfigAbsent, ConfigString(""), ConfigString("key2"), ConfigNumber}

Chain(key, name, value) == [key |-> key, name |-> name, value |-> value]

PortfolioA ==
  [address |-> AddrA, networth |-> <<"5", "0", "0", ".", "5">>,
   hasChains |-> TRUE,
   chains |-> <<Chain("eth", "Ethereum", <<"5", "0", "0", ".", "5">>)>>,
   hasProtocols |-> TRUE,
   assetByProtocols |-> <<Chain("wallet", "Wallet", <<"5", "0", "0", ".", "5">>)>>]

PortfolioB ==
  [address |-> AddrB, networth |-> <<"1", "1", "1">>,
   hasChains |-> TRUE, chains |-> <<>>,
   hasProtocols |-> TRUE,
   assetByProtocols |-> <<Chain("a", "A", <<"1", "0">>),
                          Chain("wallet", "Wallet", <<"1">>),
                          Chain("b", "B", <<"1", "0", "0">>)>>]

\* an element without `chains`: the formatter throws on it
PortfolioMalformed == [NoPortfolio EXCEPT !.address = AddrA]

\* the outcomes of a fetch call
FetchOutcomes ==
  {[rejected |-> TRUE, error |-> Error(ErrNetwork), ok |-> FALSE,
    statusText |-> <<>>],
   [rejected |-> TRUE, error |-> NonError(<<"aborted">>), ok |-> FALSE,
    statusText |-> <<>>],
   [rejected |-> FALSE, error |-> NoError, ok |-> FALSE,
    statusText |-> <<"Not Found">>],
   [rejected |-> FALSE, error |-> NoError, ok |-> TRUE,
    statusText |-> <<"OK">>]}

\* the outcomes of reading a response body
Bodies ==
  {[isJson |-> FALSE, array |-> <<>>],
   [isJson |-> TRUE, array |-> <<>>],
   [isJson |-> TRUE, array |-> <<PortfolioA>>],
   [isJson |-> TRUE, array |-> <<PortfolioB, PortfolioA>>],
   [isJson |-> TRUE, array |-> <<PortfolioMalformed>>]}

\* the values a callback may throw
CallbackErrors == {Error(ErrCallback)}

(***************************************************************************)
(* The initial state and the steps.                                        *)
(***************************************************************************)
NoProbe ==
  [content |-> NoTextContent, done |-> {}, sync |-> providerSync(NoTextContent, EnvUndefined),
   address |-> <<>>, valid |-> FALSE,
   original |-> NoPortfolio,   \* the portfolio as it was built
   portfolio |-> NoPortfolio,  \* the portfolio object handed to the formatter
   texts |-> <<>>]             \* what the formatter has returned, call by call

Init ==
  /\ env \in EnvValues
  /\ inv = [i \in Inv |-> IdleInvocation]
  /\ plugin = IdlePlugin
  /\ probe = NoProbe

\* the addresses for which some invocation has returned data so far
FetchedAddresses ==
  {inv[j].provAddress : j \in {k \in Inv : inv[k].provResult.hasData}}

\* invocations are started in the order of their numbers
CanStart(i) ==
  /\ inv[i].pc = "idle"
  /\ \A j \in Inv : j < i => inv[j].pc # "idle"

\* octavProvider.get(runtime, message, state) is called with a message
\* whose content is one of `contents`
ProviderGet(i, contents) ==
  /\ CanStart(i)
  /\ \E content \in contents :
       inv' = [inv EXCEPT ![i] =
                 startProvider([IdleInvocation EXCEPT
                                  !.kind = "provider",
                                  !.content = content,
                                  !.pluginAtCall = plugin,
                                  !.fetchedBefore = FetchedAddresses],
                               env)]
  /\ UNCHANGED <<env, plugin, probe>>

\* getPortfolioBalancesAction.handler(runtime, message, state, options,
\* callback) is called
Handler(i, contents) ==
  /\ CanStart(i)
  /\ \E content \in contents, hasCallback \in BOOLEAN :
       inv' = [inv EXCEPT ![i] =
                 startProvider([IdleInvocation EXCEPT
                                  !.kind = "handler",
                                  !.content = content,
                                  !.hasCallback = hasCallback,
                                  !.pluginAtCall = plugin,
                                  !.fetchedBefore = FetchedAddresses,
                                  !.address = handlerAddress(content)],
                               env)]
  /\ UNCHANGED <<env, plugin, probe>>

\* the fetch call of invocation i settles
FetchSettles(i, outcomes) ==
  /\ inv[i].pc = "fetch"
  /\ \E outcome \in outcomes :
       inv' = [inv EXCEPT ![i] = afterFetch(inv[i], outcome)]
  /\ UNCHANGED <<env, plugin, probe>>

\* the json() call of invocation i settles
JsonSettles(i, bodies) ==
  /\ inv[i].pc = "json"
  /\ \E body \in bodies :
       inv' = [inv EXCEPT ![i] = afterJson(inv[i], body)]
  /\ UNCHANGED <<env, plugin, probe>>

\* the callback call of the try block returns
CallbackReturns(i) ==
  /\ inv[i].pc = "callback"
  /\ inv' = [inv EXCEPT ![i] = afterCallback(inv[i], FALSE, NoError)]
  /\ UNCHANGED <<env, plugin, probe>>

\* the callback call of the try block throws
CallbackThrows(i) ==
  /\ inv[i].pc = "callback"
  /\ \E error \in CallbackErrors :
       inv' = [inv EXCEPT ![i] = afterCallback(inv[i], TRUE, error)]
  /\ UNCHANGED <<env, plugin, probe>>

\* the callback call of the catch block returns
CatchCallbackReturns(i) ==
  /\ inv[i].pc = "callbackCatch"
  /\ inv' = [inv EXCEPT ![i] = afterCallbackCatch(inv[i], FALSE, NoError)]
  /\ UNCHANGED <<env, plugin, probe>>

\* the callback call of the catch block throws
CatchCallbackThrows(i) ==
  /\ inv[i].pc = "callbackCatch"
  /\ \E error \in CallbackErrors :
       inv' = [inv EXCEPT ![i] = afterCallbackCatch(inv[i], TRUE, error)]
  /\ UNCHANGED <<env, plugin, probe>>

\* octavPlugin.init(config) is called and suspends at parseAsync
PluginInit ==
  /\ plugin.pc = "idle"
  /\ plugin.calls < MaxInits
  /\ \E config \in Configs :
       plugin' = [pc |-> "parsing", config |-> config,
                  calls |-> plugin.calls + 1, outcome |-> "none",
                  error |-> NoError, envBefore |-> env]
  /\ UNCHANGED <<env, inv, probe>>

\* parseAsync settles: the validated entries are copied to process.env, or
\* the ZodError is rethrown as an Error
PluginInitSettles ==
  /\ plugin.pc = "parsing"
  /\ env' = initEnv(env, plugin.config)
  /\ plugin' = [plugin EXCEPT
                  !.pc = "idle",
                  !.outcome = IF configSchemaValid(plugin.config)
                                THEN "resolved" ELSE "rejected",
                  !.error = IF configSchemaValid(plugin.config)
                              THEN NoError
                              ELSE Error(InitErrorMessage(plugin.config))]
  /\ UNCHANGED <<inv, probe>>

(***************************************************************************)
(* Spec: one invocation of the provider or of the handler, with every      *)
(* input of the model, while the plugin is initialised.                    *)
(***************************************************************************)
Next ==
  \/ ProviderGet(1, Contents)
  \/ Handler(1, Contents)
  \/ FetchSettles(1, FetchOutcomes)
  \/ JsonSettles(1, Bodies)
  \/ CallbackReturns(1)
  \/ CallbackThrows(1)
  \/ CatchCallbackReturns(1)
  \/ CatchCallbackThrows(1)
  \/ PluginInit
  \/ PluginInitSettles

Spec == Init /\ [][Next]_vars

(***************************************************************************)
(* SpecMulti: up to MaxInv invocations in flight together, started and     *)
(* resumed in any order, on messages that carry an address.                *)
(***************************************************************************)
MultiContents == {c \in Contents : c.hasText /\ RegexMatch(c.text).found}

MultiOutcomes == {o \in FetchOutcomes : o.rejected => o.error.isError}

MultiBodies == {b \in Bodies : b.isJson /\ \A k \in 1..Len(b.array) : ~FormatThrows(b.array[k])}

InitMulti ==
  /\ env \in {EnvUndefined, EnvString("key1")}
  /\ inv = [i \in Inv |-> IdleInvocation]
  /\ plugin = IdlePlugin
  /\ probe = NoProbe

NextMulti ==
  \/ \E i \in Inv : ProviderGet(i, MultiContents)
  \/ \E i \in Inv : Handler(i, MultiContents)
  \/ \E i \in Inv : FetchSettles(i, MultiOutcomes)
  \/ \E i \in Inv : JsonSettles(i, MultiBodies)
  \/ \E i \in Inv : CallbackReturns(i)

SpecMulti == InitMulti /\ [][NextMulti]_vars

(***************************************************************************)
(* SpecText: the text functions (the address extraction of the provider    *)
(* and of the handler, and validate) applied to texts made of up to        *)
(* MaxChunks chunks.                                                       *)
(***************************************************************************)
Chunks ==
  << AddrA,
     AddrB,
     <<"0", "x">> \o Rep("c", HexLen - 1),       \* one hex character short
     <<"0", "X">> \o Rep("d", HexLen),           \* a capital X
     <<"f">>,
     <<" ">>,
     <<"z">>,
     <<"p", "o", "r", "t", "f", "o", "l", "i", "o">>,
     <<"P", "o", "r", "t", "F", "O", "L", "I", "O">>,
     <<"P", "O", "R", "T", "F", "O", "L", "I_dot", "O">>,
     <<"p", "o", "r", "t">>,
     <<"f", "o", "l", "i", "o">> >>

RECURSIVE ChunkTexts(_)
ChunkTexts(n) ==
  IF n = 0 THEN {<<>>}
  ELSE LET shorter == ChunkTexts(n - 1)
       IN shorter \cup {t \o Chunks[k] : t \in shorter, k \in 1..Len(Chunks)}

ProbeContents == {NoTextContent} \cup {TextContent(t) : t \in ChunkTexts(MaxChunks)}

InitText ==
  /\ env = EnvString("key1")
  /\ inv = [i \in Inv |-> IdleInvocation]
  /\ plugin = IdlePlugin
  /\ probe \in {[NoProbe EXCEPT !.content = c] : c \in ProbeContents}

\* the provider runs on the text up to its fetch call
ProbeProvider ==
  /\ "provider" \notin probe.done
  /\ probe' = [probe EXCEPT !.done = @ \cup {"provider"},
                            !.sync = providerSync(probe.content, env)]
  /\ UNCHANGED <<env, inv, plugin>>

\* the handler extracts its address from the text
ProbeHandler ==
  /\ "handler" \notin probe.done
  /\ probe' = [probe EXCEPT !.done = @ \cup {"handler"},
                            !.address = handlerAddress(probe.content)]
  /\ UNCHANGED <<env, inv, plugin>>

\* validate runs on the text
ProbeValidate ==
  /\ "validate" \notin probe.done
  /\ probe' = [probe EXCEPT !.done = @ \cup {"validate"},
                            !.valid = validate(probe.content)]
  /\ UNCHANGED <<env, inv, plugin>>

NextText == ProbeProvider \/ ProbeHandler \/ ProbeValidate

SpecText == InitText /\ [][NextText]_vars

(***************************************************************************)
(* The formatter on its own: a portfolio is formatted up to MaxFormatCalls *)
(* times.  The values are decimal strings as the Octav API sends them;     *)
(* some of them lie half-way between two hundredths.                       *)
(***************************************************************************)
ProtocolKeys == <<"protocol1", "protocol2", "protocol3", "protocol4", "protocol5">>
ProtocolNames == {"Wallet", "A", "B"}
ProtocolValues == {<<"1">>, <<"1", "0">>, <<"1", "0", "0">>}

RECURSIVE ProtocolLists(_)
ProtocolLists(n) ==
  IF n = 0 THEN {<<>>}
  ELSE LET shorter == ProtocolLists(n - 1)
       IN shorter \cup
          {Append(es, Chain(ProtocolKeys[Len(es) + 1], name, value) ) :
             es \in {s \in shorter : Len(s) = n - 1},
             name \in ProtocolNames, value \in ProtocolValues}

\* networth and chains of the formatted portfolios
FormatShapes ==
  { [networth |-> <<"1", "2", "3", "4", ".", "5">>, chains |-> <<>>],
    [networth |-> <<"0">>,
     chains |-> <<Chain("eth", "Ethereum", <<"1", ".", "0", "0", "5">>),
                  Chain("arb", "Arbitrum", <<"8", ".", "3", "4", "5">>)>>],
    [networth |-> <<"0", ".", "1", "2", "5">>,
     chains |-> <<Chain("eth", "Ethereum", <<"5", "0", "0", ".", "5">>)>>],
    [networth |-> <<"1", ".", "2", "3", "9">>,
     chains |-> <<Chain("base", "Base", <<"9", ".", "9", "9", "5">>),
                  Chain("eth", "Ethereum", <<"0", ".", "0", "0", "4">>)>>] }

FormatPortfolios ==
  { [address |-> AddrA, networth |-> s.networth,
     hasChains |-> TRUE, chains |-> s.chains,
     hasProtocols |-> TRUE, assetByProtocols |-> es] :
       s \in FormatShapes, es \in ProtocolLists(MaxProtocols) }

InitFormat ==
  /\ env = EnvString("key1")
  /\ inv = [i \in Inv |-> IdleInvocation]
  /\ plugin = IdlePlugin
  /\ probe \in {[NoProbe EXCEPT !.original = p, !.portfolio = p] :
                   p \in FormatPortfolios}

\* formatPortfolioBalancesResponse(portfolio) returns
FormatCall ==
  /\ Len(probe.texts) < MaxFormatCalls
  /\ ~FormatThrows(probe.portfolio)
  /\ probe' = [probe EXCEPT
                 !.texts = Append(@, formatPortfolioBalancesResponse(probe.portfolio)),
                 !.portfolio = formatEffect(probe.portfolio)]
  /\ UNCHANGED <<env, inv, plugin>>

NextFormat == FormatCall

SpecFormat == InitFormat /\ [][NextFormat]_vars

(***************************************************************************)
(* Properties.                                                             *)
(***************************************************************************)
\* the positions of a text where "0x" and 40 hexadecimal characters start
AddressStarts(t) ==
  {i \in 1..Len(t) :
     /\ i + 41 <= Len(t)
     /\ t[i] = "0"
     /\ t[i + 1] = "x"
     /\ \A j \in (i + 2)..(i + 41) : t[j] \in HexChars}

HasAddress(c) == c.hasText /\ AddressStarts(c.text) # {}

LeftmostAddress(t) ==
  LET first == CHOOSE i \in AddressStarts(t) : \A j \in AddressStarts(t) : i <= j
  IN SubSeq(t, first, first + 41)

Started(i) == inv[i].kind # "none"

Settled(i) == inv[i].pc \in {"resolved", "rejected"}

\* C1: for a text that contains "0x" followed by 40 hexadecimal characters,
\* the address the provider queries and the address the handler reports are
\* the leftmost such substring, character for character.
C1_AddressIsLeftmostMatch ==
  HasAddress(probe.content) =>
    /\ "provider" \in probe.done =>
         /\ ~probe.sync.threw
         /\ probe.sync.address = LeftmostAddress(probe.content.text)
    /\ "handler" \in probe.done =>
         probe.address = LeftmostAddress(probe.content.text)

\* a text with two addresses, the first one in mixed case, after both
\* extractions
C1_Witness ==
  /\ probe.content.hasText
  /\ Cardinality(AddressStarts(probe.content.text)) >= 2
  /\ {"provider", "handler"} \subseteq probe.done
  /\ probe.sync.address = AddrA
  /\ probe.address = AddrA
  /\ LeftmostAddress(probe.content.text) = AddrA

C2_Phrases ==
  { <<"f","e","t","c","h"," ","p","o","r","t","f","o","l","i","o">>,
    <<"g","e","t"," ","p","o","r","t","f","o","l","i","o">>,
    <<"l","i","s","t"," ","p","o","r","t","f","o","l","i","o"," ",
      "b","a","l","a","n","c","e","s">>,
    <<"p","o","r","t","f","o","l","i","o">>,
    <<"d","i","s","p","l","a","y"," ","p","o","r","t","f","o","l","i","o",
      " ","b","a","l","a","n","c","e","s">> }

C2_ContainsPhrase(c) ==
  /\ c.hasText
  /\ LET low == toLowerCase(c.text)
     IN \E ph \in C2_Phrases : \E i \in 1..Len(low) :
          /\ i + Len(ph) - 1 <= Len(low)
          /\ \A k \in 1..Len(ph) : low[i + k - 1] = ph[k]

\* C2: validate returns true exactly when the lower-cased text contains one
\* of the five keyword phrases; it returns false for a message without text.
C2_ValidateIffKeyword ==
  "validate" \in probe.done => (probe.valid <=> C2_ContainsPhrase(probe.content))

\* validate has accepted a text that has the phrase in capitals only
C2_Witness ==
  /\ "validate" \in probe.done
  /\ probe.valid
  /\ \A i \in 1..Len(probe.content.text) : probe.content.text[i] # "p"

\* C3: a provider call that finds OCTAV_API_KEY unset or empty returns the
\* text "Octav API not found" and no data, and issues no request, whatever
\* the message is.
C3_MissingKey ==
  \A i \in Inv :
    (Started(i) /\ (~inv[i].keyChecked.defined \/ inv[i].keyChecked.value = "")) =>
      /\ inv[i].requests = <<>>
      /\ inv[i].provResult.settled
      /\ inv[i].provResult.hasText
      /\ inv[i].provResult.text = <<"Octav API not found">>
      /\ ~inv[i].provResult.hasData

\* the key is the empty string and the message has no address
C3_Witness ==
  /\ inv[1].kind = "provider"
  /\ inv[1].keyChecked = EnvString("")
  /\ inv[1].content.hasText
  /\ ~HasAddress(inv[1].content)
  /\ inv[1].provResult.text = <<"Octav API not found">>

C5_NonSuccessStatus ==
  \A i \in Inv :
    (/\ inv[i].responses # <<>>
     /\ ~inv[i].responses[1].rejected
     /\ ~inv[i].responses[1].ok) =>
      /\ inv[i].jsonCalls = 0
      /\ inv[i].bodies = <<>>
      /\ inv[i].provResult.settled
      /\ inv[i].provResult.hasText
      /\ ~inv[i].provResult.hasData
      /\ inv[i].provResult.text =
           <<"Failed to fetch portfolio balances for ">>
           \o LeftmostAddress(inv[i].content.text)
           \o <<": ">> \o inv[i].responses[1].statusText

C5_Witness ==
  /\ inv[1].kind = "provider"
  /\ inv[1].pc = "resolved"
  /\ inv[1].responses = <<[rejected |-> FALSE, error |-> NoError, ok |-> FALSE,
                           statusText |-> <<"Not Found">>]>>
  /\ includes(inv[1].provResult.text, <<"Not Found">>)
  /\ includes(inv[1].provResult.text, AddrB)

\* the provider of invocation i has ended with an error: the key or the
\* address is missing, or the one request has failed
ProviderFailed(i) ==
  /\ inv[i].provResult.settled
  /\ inv[i].provResult.hasText

\* C6: a handler invocation whose key or address is missing, or whose HTTP
\* call fails, returns {success: false, text, error} with the underlying
\* error message in `text`.
C6_HandlerFailureShape ==
  \A i \in Inv :
    (inv[i].kind = "handler" /\ Settled(i) /\ ProviderFailed(i)) =>
      /\ inv[i].result.settled = "resolved"
      /\ ~inv[i].result.success
      /\ inv[i].result.hasError
      /\ inv[i].result.hasText
      /\ includes(inv[i].result.text, inv[i].provResult.text)

\* C7: when the callback throws on each of its invocations, the handler
\* does not reject: it resolves to a result with success = false whose error
\* is the error the callback threw.
C7_CallbackErrorCaught ==
  \A i \in Inv :
    (/\ inv[i].kind = "handler"
     /\ Settled(i)
     /\ inv[i].cbThrew # <<>>
     /\ \A k \in 1..Len(inv[i].cbThrew) : inv[i].cbThrew[k]) =>
      /\ inv[i].result.settled = "resolved"
      /\ ~inv[i].result.success
      /\ inv[i].result.hasError
      /\ inv[i].result.error \in CallbackErrors

\* C8: an invocation issues at most one request, also after a failed one.
C8_AtMostOneRequest ==
  \A i \in Inv : Len(inv[i].requests) <= 1

\* an invocation has ended after its one request has failed
C8_Witness ==
  /\ Settled(1)
  /\ Len(inv[1].requests) = 1
  /\ inv[1].responses # <<>>
  /\ (inv[1].responses[1].rejected \/ ~inv[1].responses[1].ok)

\* C9: every invocation made with the key set and an address in its message
\* issues its own request, also when an earlier invocation has fetched the
\* same address with data, and its result comes from the response to that
\* request.
C9_NoCaching ==
  \A i \in Inv :
    (/\ Started(i)
     /\ inv[i].keyChecked.defined /\ inv[i].keyChecked.value # ""
     /\ HasAddress(inv[i].content)) =>
      /\ Len(inv[i].requests) = 1
      /\ inv[i].provResult.settled =>
           /\ Len(inv[i].responses) = 1
           /\ inv[i].provResult.hasData <=>
                /\ inv[i].responses[1].ok
                /\ Len(inv[i].bodies) = 1
                /\ inv[i].bodies[1].isJson
                /\ inv[i].bodies[1].array # <<>>
           /\ inv[i].provResult.hasData =>
                inv[i].provResult.data = inv[i].bodies[1].array[1]

\* an invocation called after the same address had been fetched with data
\* has made its own request and got other data
C9_Witness ==
  \E i \in Inv, j \in Inv :
    /\ i # j
    /\ inv[j].provResult.hasData
    /\ inv[i].provAddress = inv[j].provAddress
    /\ inv[i].provAddress \in inv[i].fetchedBefore
    /\ Len(inv[i].requests) = 1
    /\ inv[i].provResult.hasData
    /\ inv[i].provResult.data # inv[j].provResult.data

\* C10: every request is a GET to
\* https://backend-dev-api.octav.fi/v1/portfolio with the one query parameter
\* addresses=<the address of the invocation's message> and the header
\* Authorization: Bearer <key>, the key being the non-empty OCTAV_API_KEY the
\* invocation's key check read.
C10_RequestShape ==
  \A i \in Inv : \A k \in 1..Len(inv[i].requests) :
    /\ inv[i].requests[k].method = "GET"
    /\ HasAddress(inv[i].content)
    /\ inv[i].requests[k].url =
         <<"https://backend-dev-api.octav.fi", "/v1/portfolio?",
           "addresses", "=">> \o LeftmostAddress(inv[i].content.text)
    /\ inv[i].keyChecked.defined
    /\ inv[i].keyChecked.value # ""
    /\ inv[i].requests[k].Authorization = <<"Bearer ", inv[i].keyChecked.value>>

\* a request that carries the key a plugin init has set
C10_Witness ==
  /\ Len(inv[1].requests) = 1
  /\ inv[1].requests[1].Authorization = <<"Bearer ", "key2">>
  /\ plugin.calls = 1


\* C11: when the response is ok and its body is a JSON array, the provider
\* returns element [0] of the array as data and no text; for an empty array
\* the data is undefined and there is still no text.
C11_FirstElement ==
  \A i \in Inv :
    (inv[i].bodies # <<>> /\ inv[i].bodies[1].isJson) =>
      /\ inv[i].provResult.settled
      /\ ~inv[i].provResult.hasText
      /\ inv[i].provResult.text = <<>>
      /\ inv[i].bodies[1].array # <<>> =>
           /\ inv[i].provResult.hasData
           /\ inv[i].provResult.data = inv[i].bodies[1].array[1]
      /\ inv[i].bodies[1].array = <<>> => ~inv[i].provResult.hasData

\* the body has two elements and the data is the first one
C11_Witness ==
  /\ inv[1].kind = "provider"
  /\ inv[1].pc = "resolved"
  /\ inv[1].bodies # <<>>
  /\ Len(inv[1].bodies[1].array) = 2
  /\ inv[1].provResult.data = PortfolioB
  /\ inv[1].bodies[1].array[2] # PortfolioB


\* invocation i is a handler call that has ended, on a message with an
\* address, with the key set, an ok response and a body whose first element
\* is a portfolio the formatter accepts
EndToEndCase(i) ==
  /\ inv[i].kind = "handler"
  /\ Settled(i)
  /\ HasAddress(inv[i].content)
  /\ inv[i].keyChecked.defined /\ inv[i].keyChecked.value # ""
  /\ inv[i].responses # <<>> /\ inv[i].responses[1].ok
  /\ inv[i].bodies # <<>> /\ inv[i].bodies[1].isJson
  /\ inv[i].bodies[1].array # <<>>
  /\ ~FormatThrows(inv[i].bodies[1].array[1])

EndToEndSuccess(i) ==
  /\ inv[i].result.settled = "resolved"
  /\ inv[i].result.success
  /\ inv[i].result.hasText
  /\ includes(inv[i].result.text,
              formatPortfolioBalancesResponse(inv[i].bodies[1].array[1]))
  /\ inv[i].bodies[1].array[1] = PortfolioA =>
       /\ includes(inv[i].result.text,
                   <<"Total Networth: $", "5", "0", "0", ".", "5", "0">>)
       /\ includes(inv[i].result.text,
                   <<"Ethereum", ": $", "5", "0", "0", ".", "5", "0">>)
       /\ includes(inv[i].result.text,
                   <<"Wallet", ": $", "5", "0", "0", ".", "5", "0">>)

C13_CallbackOnceSameText ==
  \A i \in Inv :
    /\ inv[i].pc = "callback" =>
         /\ inv[i].result.settled = "pending"
         /\ Len(inv[i].cbCalls) = 1
         /\ inv[i].cbCalls[1].success
    /\ (inv[i].kind = "handler" /\ inv[i].result.settled = "resolved"
        /\ inv[i].result.success) =>
         /\ inv[i].hasCallback =>
              /\ Len(inv[i].cbCalls) = 1
              /\ inv[i].cbCalls[1].success
              /\ inv[i].cbCalls[1].text = inv[i].result.text
         /\ ~inv[i].hasCallback => inv[i].cbCalls = <<>>
         /\ inv[i].result =
              SuccessResult(LeftmostAddress(inv[i].content.text),
                            formatPortfolioBalancesResponse(inv[i].provResult.data))

\* a handler with a callback has returned its success result
C13_Witness ==
  /\ inv[1].kind = "handler"
  /\ inv[1].hasCallback
  /\ inv[1].result.settled = "resolved"
  /\ inv[1].result.success
  /\ Len(inv[1].cbCalls) = 1
  /\ inv[1].cbThrew = <<FALSE>>
  /\ inv[1].cbCalls[1].text = inv[1].result.text


(***************************************************************************)
(* The formatter.                                                          *)
(***************************************************************************)
\* the members of a set of positions, in ascending order
Ascending(S) ==
  [k \in 1..Cardinality(S) |->
     CHOOSE i \in S : Cardinality({j \in S : j < i}) = k - 1]

\* the lines "name: $digits" of the protocol section of a report, read back
\* from its text
RenderedProtocols(text) ==
  LET hdr == CHOOSE i \in 1..Len(text) : text[i] = "Networth per Protocol:"
      marks == Ascending({i \in (hdr + 1)..Len(text) : text[i] = ": $"})
      lineEnd(i) == CHOOSE j \in (i + 1)..Len(text) :
                      /\ text[j] = "\n"
                      /\ \A m \in (i + 1)..(j - 1) : text[m] # "\n"
  IN [k \in 1..Len(marks) |->
        [name |-> text[marks[k] - 1],
         shown |-> SubSeq(text, marks[k] + 1, lineEnd(marks[k]) - 1)]]

\* how many entries of es have this name and this numeric value
CountOf(es, name, n, valueOf(_)) ==
  Cardinality({k \in 1..Len(es) : es[k].name = name /\ valueOf(es[k]) = n})

ProtocolOrderOf(text, es) ==
  LET L == RenderedProtocols(text)
      hasWallet == \E k \in 1..Len(es) : es[k].name = "Wallet"
      first == IF hasWallet THEN 2 ELSE 1
      shown(l) == NumberOf(l.shown)
      given(e) == NumberOf(e.value)
  IN /\ Len(L) = Len(es)
     /\ \A k \in 1..Len(es) :
          CountOf(L, es[k].name, given(es[k]), shown)
            = CountOf(es, es[k].name, given(es[k]), given)
     /\ hasWallet => L[1].name = "Wallet"
     /\ \A j \in first..(Len(L) - 1) : shown(L[j]) >= shown(L[j + 1])

\* protocols {A: 10, Wallet: 1, B: 100}
IsSpecExample(es) ==
  /\ Len(es) = 3
  /\ es[1].name = "A" /\ es[1].value = <<"1", "0">>
  /\ es[2].name = "Wallet" /\ es[2].value = <<"1">>
  /\ es[3].name = "B" /\ es[3].value = <<"1", "0", "0">>

\* C14: in the protocol section of every report an entry named exactly
\* "Wallet", if there is one, is the first line whatever its value, and the
\* lines after it are in non-increasing order of numeric value; without a
\* Wallet entry the whole section is in non-increasing order; the protocols
\* {A: 10, Wallet: 1, B: 100} come out as Wallet, B, A.
C14_WalletFirstThenDescending ==
  \A c \in 1..Len(probe.texts) :
    /\ ProtocolOrderOf(probe.texts[c], probe.original.assetByProtocols)
    /\ IsSpecExample(probe.original.assetByProtocols) =>
         includes(probe.texts[c],
                  <<"Wallet", ": $", "1", ".", "0", "0", "\n",
                    "B", ": $", "1", "0", "0", ".", "0", "0", "\n",
                    "A", ": $", "1", "0", ".", "0", "0", "\n">>)

\* the example of the spec has been formatted
C14_Witness ==
  /\ Len(probe.texts) >= 1
  /\ IsSpecExample(probe.original.assetByProtocols)
  /\ RenderedProtocols(probe.texts[1])[1].name = "Wallet"
  /\ RenderedProtocols(probe.texts[1])[3].name = "A"

\* the text shows, after `prefix`, the value with two fraction digits, as a
\* hundredth nearest to it
MoneyShown(text, prefix, value) ==
  LET m == NumberOf(value)
  IN \E h \in {m \div 10, (m \div 10) + 1} :
       /\ 10 * h - m <= 5
       /\ m - 10 * h <= 5
       /\ includes(text, prefix \o FixedDigits(h) \o <<"\n">>)

\* C15: every report shows the total networth, each chain value and each
\* protocol value as "$" and the value rounded to two fraction digits,
\* never more and never fewer; "1234.5" is shown as $1234.50 and "0" as
\* $0.00.
C15_TwoDecimals ==
  \A c \in 1..Len(probe.texts) :
    LET text == probe.texts[c]
        p == probe.original
    IN /\ MoneyShown(text, <<"Total Networth: $">>, p.networth)
       /\ \A k \in 1..Len(p.chains) :
            MoneyShown(text, <<p.chains[k].name, ": $">>, p.chains[k].value)
       /\ \A k \in 1..Len(p.assetByProtocols) :
            MoneyShown(text, <<p.assetByProtocols[k].name, ": $">>,
                       p.assetByProtocols[k].value)
       /\ p.networth = <<"1", "2", "3", "4", ".", "5">> =>
            includes(text, <<"Total Networth: $",
                             "1", "2", "3", "4", ".", "5", "0", "\n">>)
       /\ p.networth = <<"0">> =>
            includes(text, <<"Total Networth: $", "0", ".", "0", "0", "\n">>)

\* "1234.5" has been shown as $1234.50, next to a protocol value
C15_Witness ==
  /\ Len(probe.texts) >= 1
  /\ probe.original.networth = <<"1", "2", "3", "4", ".", "5">>
  /\ Len(probe.original.assetByProtocols) >= 1
  /\ includes(probe.texts[1], <<"Total Networth: $",
                                "1", "2", "3", "4", ".", "5", "0", "\n">>)

InitSettled(p) == p.pc = "idle" /\ p.outcome # "none"

\* the config of the init call had a non-empty string as its key
HasKey(p) == p.config.present /\ p.config.isString /\ p.config.value # ""

\* C17: an init whose config has a non-empty string OCTAV_API_KEY resolves
\* and leaves process.env.OCTAV_API_KEY equal to that string; a provider
\* call made after it reads that string at its key check, does not fail for
\* a missing key, and every request it sends has "Bearer " and that string
\* as its Authorization header.
C17_InitSetsKey ==
  /\ (InitSettled(plugin) /\ HasKey(plugin)) =>
       /\ plugin.outcome = "resolved"
       /\ plugin.error = NoError
       /\ env = EnvString(plugin.config.value)
  /\ \A i \in Inv :
       (Started(i) /\ InitSettled(inv[i].pluginAtCall)
        /\ HasKey(inv[i].pluginAtCall)) =>
         /\ inv[i].keyChecked = EnvString(inv[i].pluginAtCall.config.value)
         /\ inv[i].provResult.settled => inv[i].provResult.text # ErrNoKey
         /\ HasAddress(inv[i].content) => Len(inv[i].requests) >= 1
         /\ \A k \in 1..Len(inv[i].requests) :
              inv[i].requests[k].Authorization =
                <<"Bearer ", inv[i].pluginAtCall.config.value>>

\* the environment had another key before the init, and the provider call
\* that followed the init has sent the key of the config
C17_Witness ==
  /\ inv[1].kind = "provider"
  /\ InitSettled(inv[1].pluginAtCall)
  /\ inv[1].pluginAtCall.config = ConfigString("key2")
  /\ inv[1].pluginAtCall.envBefore = EnvString("key1")
  /\ Len(inv[1].requests) = 1
  /\ inv[1].requests[1].Authorization = <<"Bearer ", "key2">>
  /\ inv[1].provResult.hasData

\* C18: an init whose config has no OCTAV_API_KEY resolves without an error
\* and leaves process.env.OCTAV_API_KEY as it was; when the key was not set,
\* the provider call made after that init is the one that reports it: no
\* request, no data, and the text "Octav API not found".
C18_MissingKeyAtCallTime ==
  /\ (InitSettled(plugin) /\ ~plugin.config.present) =>
       /\ plugin.outcome = "resolved"
       /\ plugin.error = NoError
       /\ env = plugin.envBefore
  /\ \A i \in Inv :
       (Started(i) /\ InitSettled(inv[i].pluginAtCall)
        /\ ~inv[i].pluginAtCall.config.present
        /\ ~Truthy(inv[i].pluginAtCall.envBefore)) =>
         /\ inv[i].requests = <<>>
         /\ inv[i].provResult.settled
         /\ ~inv[i].provResult.hasData
         /\ inv[i].provResult.hasText
         /\ inv[i].provResult.text = ErrNoKey
         /\ inv[i].kind = "provider" => inv[i].pc = "resolved"

\* an init without a key has resolved in an environment without a key, and
\* the provider call after it has returned the failure text
C18_Witness ==
  /\ inv[1].kind = "provider"
  /\ InitSettled(inv[1].pluginAtCall)
  /\ inv[1].pluginAtCall.outcome = "resolved"
  /\ ~inv[1].pluginAtCall.config.present
  /\ inv[1].pluginAtCall.envBefore = EnvUndefined
  /\ HasAddress(inv[1].content)
  /\ inv[1].provResult.text = ErrNoKey

C20_NoDataReturnsAtOnce ==
  \A i \in Inv :
    (inv[i].kind = "handler" /\ inv[i].provResult.settled
     /\ ~inv[i].provResult.hasData) =>
      /\ inv[i].pc = "resolved"
      /\ inv[i].result = NoDataResult
      /\ ~inv[i].result.success
      /\ ~inv[i].result.hasText
      /\ inv[i].result.error = NonError(<<"No data">>)
      /\ inv[i].formatCalls = 0
      /\ inv[i].cbCalls = <<>>

\* a handler with a callback got an empty array from upstream
C20_Witness ==
  /\ inv[1].kind = "handler"
  /\ inv[1].hasCallback
  /\ Len(inv[1].bodies) = 1
  /\ inv[1].provResult.settled
  /\ ~inv[1].provResult.hasData
  /\ ~inv[1].provResult.hasText
  /\ inv[1].result = NoDataResult
  /\ inv[1].cbCalls = <<>>


(***************************************************************************)
(* The provider's promise.                                                 *)
(***************************************************************************)
\* C21: a call of octavProvider.get is suspended at its fetch, suspended at
\* json(), or resolved, and never rejected, whatever the message, the key
\* and the upstream outcome; when the message has no text, when fetch
\* rejects with an Error, when the status is not a success and when the
\* body is not JSON, the call is resolved with the message of that error as
\* `text` and without `data`.
C21_ProviderNeverRejects ==
  \A i \in Inv :
    /\ inv[i].kind = "provider" =>
         /\ inv[i].pc \in {"fetch", "json", "resolved"}
         /\ inv[i].result = NoResult
         /\ inv[i].pc = "resolved" <=> inv[i].provResult.settled
    /\ Started(i) =>
         LET r == inv[i].provResult
             failedWith(m) ==
               /\ r.settled /\ r.hasText /\ ~r.hasData /\ r.text = m
         IN /\ r.settled => (r.hasText => ~r.hasData)
            /\ (Truthy(inv[i].keyChecked) /\ ~inv[i].content.hasText) =>
                 failedWith(ErrTextUndefined)
            /\ (inv[i].responses # <<>> /\ inv[i].responses[1].rejected) =>
                 failedWith(IF inv[i].responses[1].error.isError
                              THEN inv[i].responses[1].error.message
                              ELSE <<"Failed to fetch portfolio balances from Octav">>)
            /\ (inv[i].responses # <<>> /\ ~inv[i].responses[1].rejected
                /\ ~inv[i].responses[1].ok) =>
                 failedWith(<<"Failed to fetch portfolio balances for ">>
                            \o LeftmostAddress(inv[i].content.text)
                            \o <<": ">> \o inv[i].responses[1].statusText)
            /\ (inv[i].bodies # <<>> /\ ~inv[i].bodies[1].isJson) =>
                 failedWith(ErrJson)

\* the provider was called on a message without a text, with the key set,
\* and has resolved with the TypeError's message
C21_Witness ==
  /\ inv[1].kind = "provider"
  /\ ~inv[1].content.hasText
  /\ Truthy(inv[1].keyChecked)
  /\ inv[1].pc = "resolved"
  /\ inv[1].provResult.text = ErrTextUndefined
  /\ ~inv[1].provResult.hasData


(***************************************************************************)
(* The formatter: ties, the chain section, the placeholders.               *)
(***************************************************************************)
\* the names of the entries of `es` whose numeric value is n, in order
NamesWithValue(es, n, valueOf(_)) ==
  LET Has(e) == valueOf(e) = n
      kept == SelectSeq(es, Has)
  IN [k \in 1..Len(kept) |-> kept[k].name]

\* the position in the input of the Wallet entry that the formatter moves:
\* the highest-valued one, the earliest of them; 0 without a Wallet entry
MovedWallet(es) ==
  LET ws == {k \in 1..Len(es) : es[k].name = "Wallet"}
      top == {k \in ws : \A j \in ws :
                NumberOf(es[k].value) >= NumberOf(es[j].value)}
  IN IF ws = {} THEN 0 ELSE CHOOSE k \in top : \A j \in top : k <= j

Without(es, k) ==
  IF k = 0 THEN es ELSE SubSeq(es, 1, k - 1) \o SubSeq(es, k + 1, Len(es))

\* C22: apart from the Wallet entry moved to the front, the protocol lines
\* of equal numeric value stand in the order their entries have in the
\* input mapping.
C22_TiesKeepInputOrder ==
  \A c \in 1..Len(probe.texts) :
    LET es == probe.original.assetByProtocols
        L == RenderedProtocols(probe.texts[c])
        inputRest == Without(es, MovedWallet(es))
        shownRest == IF MovedWallet(es) = 0 THEN L ELSE Tail(L)
        shown(l) == NumberOf(l.shown)
        given(e) == NumberOf(e.value)
    IN \A k \in 1..Len(es) :
         NamesWithValue(shownRest, given(es[k]), shown)
           = NamesWithValue(inputRest, given(es[k]), given)

\* B: 10, A: 10 and a Wallet of the same value have been formatted: Wallet,
\* then B before A
C22_Witness ==
  /\ Len(probe.texts) >= 1
  /\ LET es == probe.original.assetByProtocols
         L == RenderedProtocols(probe.texts[1])
     IN /\ Len(es) = 3
        /\ es[1].name = "B" /\ es[2].name = "A" /\ es[3].name = "Wallet"
        /\ \A k \in 1..3 : es[k].value = <<"1", "0">>
        /\ L[1].name = "Wallet" /\ L[2].name = "B" /\ L[3].name = "A"


\* the lines "name: $digits" of the chain section of a report, read back
\* from its text
RenderedChains(text) ==
  LET hdr == CHOOSE i \in 1..Len(text) : text[i] = "Networth per Chain:"
      end == CHOOSE i \in 1..Len(text) : text[i] = "Networth per Protocol:"
      marks == Ascending({i \in (hdr + 1)..(end - 1) : text[i] = ": $"})
      lineEnd(i) == CHOOSE j \in (i + 1)..Len(text) :
                      /\ text[j] = "\n"
                      /\ \A m \in (i + 1)..(j - 1) : text[m] # "\n"
  IN [k \in 1..Len(marks) |->
        [name |-> text[marks[k] - 1],
         shown |-> SubSeq(text, marks[k] + 1, lineEnd(marks[k]) - 1)]]

\* `shown` is the value with two fraction digits
IsTwoDecimalsOf(shown, value) ==
  LET m == NumberOf(value)
  IN \E h \in {m \div 10, (m \div 10) + 1} :
       /\ 10 * h - m <= 5
       /\ m - 10 * h <= 5
       /\ shown = FixedDigits(h)

\* C23: the chain section has one line for each entry of `chains`, the
\* k-th line being the name of the k-th entry, ": $" and its value with two
\* fraction digits; the lines are in the order of the entries and not in
\* the order of their values: Ethereum 1.005 entered before Arbitrum 8.345
\* is printed before it.
C23_ChainsInInsertionOrder ==
  \A c \in 1..Len(probe.texts) :
    LET chains == probe.original.chains
        L == RenderedChains(probe.texts[c])
    IN /\ Len(L) = Len(chains)
       /\ \A k \in 1..Len(chains) :
            /\ L[k].name = chains[k].name
            /\ IsTwoDecimalsOf(L[k].shown, chains[k].value)
       /\ (Len(chains) = 2 /\ chains[1].name = "Ethereum"
           /\ chains[2].name = "Arbitrum") =>
            includes(probe.texts[c],
                     <<"Ethereum", ": $", "1", ".", "0", "0", "\n",
                       "Arbitrum", ": $", "8", ".", "3", "5", "\n">>)

\* a chain of lower value entered first has been printed first
C23_Witness ==
  /\ Len(probe.texts) >= 1
  /\ LET chains == probe.original.chains
         L == RenderedChains(probe.texts[1])
     IN /\ Len(chains) = 2
        /\ NumberOf(chains[1].value) < NumberOf(chains[2].value)
        /\ Len(L) = 2
        /\ L[1].name = chains[1].name
        /\ L[2].name = chains[2].name

\* the tokens of a report between two of its tokens
Between(text, from, to) ==
  LET a == CHOOSE i \in 1..Len(text) : text[i] = from
      b == CHOOSE i \in 1..Len(text) : text[i] = to
  IN SubSeq(text, a + 1, b - 1)

ChainSection(text) ==
  Between(text, "Networth per Chain:", "Networth per Protocol:")

ProtocolSection(text) ==
  Between(text, "Networth per Protocol:", "=============================")

\* C24: the chain section is the one line "No data available for chains."
\* when `chains` is empty and does not contain that line otherwise; the
\* protocol section is the one line "No data available for protocols."
\* when `assetByProtocols` is empty and does not contain it otherwise;
\* neither section depends on the other mapping.
C24_Placeholders ==
  \A c \in 1..Len(probe.texts) :
    LET p == probe.original
        text == probe.texts[c]
        dashes == "-----------------------------"
        has(s, tok) == \E i \in 1..Len(s) : s[i] = tok
    IN /\ p.chains = <<>> =>
            ChainSection(text) =
              <<"\n", dashes, "\n", "No data available for chains.",
                "\n", "    ", "\n">>
       /\ p.chains # <<>> =>
            /\ ~has(text, "No data available for chains.")
            /\ Len(RenderedChains(text)) = Len(p.chains)
       /\ p.assetByProtocols = <<>> =>
            ProtocolSection(text) =
              <<"\n", dashes, "\n", "No data available for protocols.",
                "\n", "\n">>
       /\ p.assetByProtocols # <<>> =>
            /\ ~has(text, "No data available for protocols.")
            /\ Len(RenderedProtocols(text)) = Len(p.assetByProtocols)
       /\ ~has(ChainSection(text), "No data available for protocols.")
       /\ ~has(ProtocolSection(text), "No data available for chains.")

\* a portfolio without chains and with protocols has been formatted
C24_Witness ==
  /\ Len(probe.texts) >= 1
  /\ probe.original.chains = <<>>
  /\ probe.original.assetByProtocols # <<>>
  /\ includes(probe.texts[1], <<"No data available for chains.">>)
  /\ ~includes(probe.texts[1], <<"No data available for protocols.">>)


\* C28: the protocol section has one line for each entry of
\* `assetByProtocols`, every name and value as often as the input has it;
\* of several entries named "Wallet" the first line is the one of highest
\* value, and the other Wallet lines stand among the remaining lines, which
\* are in non-increasing order of value.
C28_ProtocolsPermuted ==
  \A c \in 1..Len(probe.texts) :
    LET es == probe.original.assetByProtocols
        L == RenderedProtocols(probe.texts[c])
        shown(l) == NumberOf(l.shown)
        given(e) == NumberOf(e.value)
        wallets == {k \in 1..Len(es) : es[k].name = "Wallet"}
    IN /\ Len(L) = Len(es)
       /\ \A name \in ProtocolNames, k \in 1..Len(es) :
            CountOf(L, name, given(es[k]), shown)
              = CountOf(es, name, given(es[k]), given)
       /\ wallets # {} =>
            /\ L[1].name = "Wallet"
            /\ \A k \in wallets : shown(L[1]) >= given(es[k])
            /\ Cardinality({j \in 2..Len(L) : L[j].name = "Wallet"})
                 = Cardinality(wallets) - 1
            /\ \A j \in 2..(Len(L) - 1) : shown(L[j]) >= shown(L[j + 1])

\* Wallet: 1, A: 10, Wallet: 100 have been formatted: the Wallet of 100
\* first, then A, then the Wallet of 1
C28_Witness ==
  /\ Len(probe.texts) >= 1
  /\ LET es == probe.original.assetByProtocols
         L == RenderedProtocols(probe.texts[1])
     IN /\ Len(es) = 3
        /\ es[1].name = "Wallet" /\ es[1].value = <<"1">>
        /\ es[2].name = "A" /\ es[2].value = <<"1", "0">>
        /\ es[3].name = "Wallet" /\ es[3].value = <<"1", "0", "0">>
        /\ L[1] = [name |-> "Wallet", shown |-> <<"1", "0", "0", ".", "0", "0">>]
        /\ L[2] = [name |-> "A", shown |-> <<"1", "0", ".", "0", "0">>]
        /\ L[3] = [name |-> "Wallet", shown |-> <<"1", ".", "0", "0">>]


(***************************************************************************)
(* Invocations in flight together.                                         *)
(***************************************************************************)
\* what invocation i must hold, computed from its own message, the key it
\* read and the outcomes of its own fetch and json() calls alone
OwnResult(i) ==
  LET st == inv[i]
      own == LeftmostAddress(st.content.text)
      r == st.provResult
  IN /\ st.provAddress = own
     /\ st.kind = "handler" => st.address = own
     /\ \A k \in 1..Len(st.requests) :
          st.requests[k].url =
            <<"https://backend-dev-api.octav.fi", "/v1/portfolio?",
              "addresses", "=">> \o own
     /\ r.settled =>
          /\ Len(st.responses) = 1
          /\ st.responses[1].rejected =>
               /\ ~r.hasData
               /\ r.text = st.responses[1].error.message
          /\ (~st.responses[1].rejected /\ ~st.responses[1].ok) =>
               /\ ~r.hasData
               /\ r.text = <<"Failed to fetch portfolio balances for ">>
                           \o own \o <<": ">> \o st.responses[1].statusText
          /\ (~st.responses[1].rejected /\ st.responses[1].ok) =>
               /\ Len(st.bodies) = 1
               /\ ~r.hasText
               /\ r.hasData <=> st.bodies[1].array # <<>>
               /\ r.hasData => r.data = st.bodies[1].array[1]
     /\ (st.kind = "handler" /\ st.result.settled = "resolved") =>
          IF r.hasData
            THEN /\ st.result.success
                 /\ st.result.address = own
                 /\ st.result.formattedResponse =
                      formatPortfolioBalancesResponse(st.bodies[1].array[1])
                 /\ \A k \in 1..Len(st.cbCalls) : st.cbCalls[k].address = own
            ELSE st.result = NoDataResult

\* C25: with several invocations in flight, each suspended at its own HTTP
\* call and resumed in any order, the address, the data and the text of
\* every invocation are those that its own message and its own response
\* give, whatever the messages and responses of the others.
C25_NoInterference ==
  \A i \in Inv :
    (Started(i) /\ Truthy(inv[i].keyChecked)) => OwnResult(i)

\* the second invocation, a handler for another address, was started while
\* the first was suspended at its fetch, and has returned its own address
\* and report while the first is still suspended
C25_Witness ==
  /\ inv[1].pc = "fetch"
  /\ inv[1].provAddress = AddrA
  /\ inv[2].kind = "handler"
  /\ inv[2].provAddress = AddrB
  /\ inv[2].result.settled = "resolved"
  /\ inv[2].result.success
  /\ inv[2].result.address = AddrB


(***************************************************************************)
(* The callback calls of one handler invocation.                           *)
(***************************************************************************)
\* C26: a handler invocation calls the callback at most twice; the success
\* content is passed at most once and only in the first call; a second
\* call takes place only after the first call, with the success content,
\* has thrown, and passes the message of the thrown error as text and as
\* content.error with content.success = false; when the formatter throws
\* there is exactly one call, with the formatter's error message.
C26_CallbackAtMostTwice ==
  \A i \in Inv :
    inv[i].kind = "handler" =>
      LET calls == inv[i].cbCalls
          fails(c, m) == ~c.success /\ c.text = m /\ c.error = m
      IN /\ Len(calls) <= 2
         /\ calls # <<>> => inv[i].hasCallback
         /\ \A k \in 2..Len(calls) : ~calls[k].success
         /\ Len(calls) = 2 =>
              /\ calls[1].success
              /\ inv[i].cbThrew # <<>>
              /\ inv[i].cbThrew[1]
              /\ fails(calls[2], inv[i].caught.message)
              /\ inv[i].caught \in CallbackErrors
         /\ (calls # <<>> /\ ~calls[1].success) =>
              /\ Len(calls) = 1
              /\ inv[i].provResult.hasData
              /\ FormatThrows(inv[i].provResult.data)
         /\ (inv[i].hasCallback /\ inv[i].provResult.hasData
             /\ FormatThrows(inv[i].provResult.data)) =>
              /\ Len(calls) = 1
              /\ fails(calls[1], ErrFormat)

\* the callback threw on the success content and has been called a second
\* time, with the message of what it threw
C26_Witness ==
  /\ inv[1].kind = "handler"
  /\ Len(inv[1].cbCalls) = 2
  /\ inv[1].cbCalls[1].success
  /\ ~inv[1].cbCalls[2].success
  /\ inv[1].cbCalls[2].text = ErrCallback
  /\ Len(inv[1].cbThrew) = 2


(***************************************************************************)
(* The address of the handler and the address of the provider.             *)
(***************************************************************************)
\* the value of the query parameter `addresses` of a request
AddressesParam(request) ==
  LET at == CHOOSE k \in 1..Len(request.url) :
              /\ request.url[k] = "addresses"
              /\ request.url[k + 1] = "="
  IN SubSeq(request.url, at + 2, Len(request.url))

\* C27: when a handler invocation has returned success, the address of its
\* result and the address of the content it passed to the callback are the
\* value of the `addresses` parameter of the one request the invocation
\* has issued.
C27_SameAddress ==
  \A i \in Inv :
    (/\ inv[i].kind = "handler"
     /\ inv[i].result.settled = "resolved"
     /\ inv[i].result.success) =>
      /\ Len(inv[i].requests) = 1
      /\ inv[i].result.hasValues
      /\ inv[i].result.address = AddressesParam(inv[i].requests[1])
      /\ inv[i].result.address # <<>>
      /\ \A k \in 1..Len(inv[i].cbCalls) :
           inv[i].cbCalls[k].success =>
             inv[i].cbCalls[k].address = AddressesParam(inv[i].requests[1])

\* a handler with a callback has succeeded on a text with two addresses
C27_Witness ==
  /\ inv[1].kind = "handler"
  /\ inv[1].content.hasText
  /\ Cardinality(AddressStarts(inv[1].content.text)) = 2
  /\ inv[1].result.success
  /\ inv[1].result.address = AddrB
  /\ AddressesParam(inv[1].requests[1]) = AddrB
  /\ Len(inv[1].cbCalls) = 1
  /\ inv[1].cbCalls[1].address = AddrB


(***************************************************************************)
(* Sequences of init calls.                                                *)
(***************************************************************************)
\* C29: no step takes process.env.OCTAV_API_KEY from a non-empty value to
\* an empty or unset one, and the only step that changes it is the
\* settling of an init whose config has a non-empty string key, which sets
\* it to that key: an init without a key, with the empty string or with a
\* value that is not a string leaves it as it was.
C29_KeyStaysSet ==
  [][ /\ Truthy(env) => Truthy(env')
      /\ env' # env =>
           /\ plugin.pc = "parsing"
           /\ HasKey(plugin)
           /\ plugin'.outcome = "resolved"
           /\ env' = EnvString(plugin.config.value)
      /\ (plugin.pc = "parsing" /\ plugin'.pc = "idle" /\ ~HasKey(plugin)) =>
           env' = env ]_vars

\* a first init has set the key and a second init, with the empty string as
\* its key, has settled and left it
C29_Witness ==
  /\ plugin.calls = 2
  /\ InitSettled(plugin)
  /\ plugin.config = ConfigString("")
  /\ plugin.outcome = "resolved"
  /\ plugin.envBefore = EnvString("key2")
  /\ env = EnvString("key2")

====
